---- MODULE Spec2Model ----
(***************************************************************************)
(* Model of apps/exploration/models.py: the Exploration storage model.     *)
(*                                                                         *)
(* The datastore holds State entities (id -> name) and Exploration         *)
(* entities (id -> state_ids, editors).  `obj` is the Exploration object   *)
(* a caller holds in memory; it is committed to the datastore only by      *)
(* put().  `last` records the most recent call, its argument and its       *)
(* outcome, so that properties can speak about "the call that just ran".   *)
(* Python's None and '' (both falsy) are the empty string "".  The         *)
(* required `category` property is always supplied and is not modelled.    *)
(***************************************************************************)
EXTENDS Integers, Sequences, FiniteSets, TLC

\* ---- bounds of the model ----
\* longest state_ids list add_state may build, longest editors list
MaxStateRefs == 2
MaxEditors == 2

\* len(feconf.DEMO_EXPLORATIONS)
NUM_DEMO_EXPLORATIONS == 2

SeqsUpTo(S, n) == UNION {[1..k -> S] : k \in 0..n}

\* Exploration ids are strings, modelled as sequences of characters:
\* "01" (digits, value 1), "2" (digits, value 2), "x0" (not all digits).
\* Inputs of Spec: two non-demo explorations over two states and two names.
ExpIds == {<<"2">>, <<"x", "0">>}
StateIds == {"s1", "s2"}
Names == {"A", "B"}
StateIdLists == SeqsUpTo(StateIds, MaxStateRefs)
EditorLists == {<<>>, <<"u1">>}

\* Inputs of SpecEditors: a demo and a non-demo exploration, two users.
ExpIdsE == {<<"0", "1">>, <<"2">>}
StateIdsE == {"s1"}
NamesE == {"A"}
UsersE == {"u1", "u2"}
StateIdListsE == {<<>>, <<"s1">>}
EditorListsE == SeqsUpTo(UsersE, MaxEditors)

VARIABLES stStore, expStore, obj, last
vars == <<stStore, expStore, obj, last>>

\* ---- datastore primitives ----
StorePut(store, key, val) ==
    [k \in (DOMAIN store) \cup {key} |-> IF k = key THEN val ELSE store[k]]

StoreDelete(store, key) ==
    [k \in (DOMAIN store) \ {key} |-> store[k]]

\* ---- str.isdigit / int ----
Digits == {"0", "1", "2", "3", "4", "5", "6", "7", "8", "9"}

DigitVal(c) ==
    CASE c = "0" -> 0 [] c = "1" -> 1 [] c = "2" -> 2 [] c = "3" -> 3
      [] c = "4" -> 4 [] c = "5" -> 5 [] c = "6" -> 6 [] c = "7" -> 7
      [] c = "8" -> 8 [] c = "9" -> 9

isdigit(s) == Len(s) > 0 /\ \A i \in 1..Len(s) : s[i] \in Digits

RECURSIVE int(_)
int(s) ==
    IF s = <<>> THEN 0
    ELSE 10 * int(SubSeq(s, 1, Len(s) - 1)) + DigitVal(s[Len(s)])

is_demo(id) == isdigit(id) /\ 0 <= int(id) /\ int(id) < NUM_DEMO_EXPLORATIONS

\* State.get(state_id, strict=False) is truthy for every id of the list
AllStatesExist(o, st) ==
    \A i \in 1..Len(o.state_ids) : o.state_ids[i] \in DOMAIN st

\* ---- the pre-put validation hook: "" when the exploration is valid ----
PrePutHookNoEmptyCheck(o, st) ==
    IF \E i \in 1..Len(o.state_ids) : o.state_ids[i] \notin DOMAIN st
    THEN "ModelValidationError"
    ELSE IF ~is_demo(o.id) /\ o.editors = <<>> THEN "ModelValidationError"
    ELSE ""

PrePutHookFirstStateOnly(o, st) ==
    IF o.state_ids = <<>> THEN "ModelValidationError"
    ELSE IF o.state_ids[1] \notin DOMAIN st THEN "ModelValidationError"
    ELSE IF ~is_demo(o.id) /\ o.editors = <<>> THEN "ModelValidationError"
    ELSE ""

PrePutHookNoEditorCheck(o, st) ==
    IF o.state_ids = <<>> THEN "ModelValidationError"
    ELSE IF \E i \in 1..Len(o.state_ids) : o.state_ids[i] \notin DOMAIN st
         THEN "ModelValidationError"
    ELSE ""

PrePutHook(o, st) ==
    IF o.state_ids = <<>> THEN "ModelValidationError"
    ELSE IF \E i \in 1..Len(o.state_ids) : o.state_ids[i] \notin DOMAIN st
         THEN "ModelValidationError"
    ELSE IF ~is_demo(o.id) /\ o.editors = <<>> THEN "ModelValidationError"
    ELSE ""

\* what the datastore keeps of an exploration
Stored(o) == [state_ids |-> o.state_ids, editors |-> o.editors]

\* the record of a call: operation, exception raised ("" if none), its
\* name or user argument, and the truth value of what it returned
Call(op, err, arg, truthy) ==
    [op |-> op, err |-> err, arg |-> arg, truthy |-> truthy]

has_state_named_never(o, st, state_name) == FALSE

\* _has_state_named, once every state of the list is known to exist
has_state_named(o, st, state_name) ==
    \E i \in 1..Len(o.state_ids) : st[o.state_ids[i]] = state_name

\* State.get_new_id: an id no stored state uses
GetNewIds(st, pool) == pool \ DOMAIN st

\* init_state: the State entity the first id refers to
init_state(o, st) ==
    [id |-> o.state_ids[1], name |-> st[o.state_ids[1]]]

\* is_editable_by / is_owned_by: `user and ...`
is_editable_by(o, user) ==
    IF user = "" THEN [raised |-> FALSE, truthy |-> FALSE]
    ELSE [raised |-> FALSE,
          truthy |-> \E i \in 1..Len(o.editors) : o.editors[i] = user]

is_owned_by(o, user) ==
    IF user = "" THEN [raised |-> FALSE, truthy |-> FALSE]
    ELSE IF o.editors = <<>> THEN [raised |-> TRUE, truthy |-> FALSE]
    ELSE [raised |-> FALSE, truthy |-> (user = o.editors[1])]

\* the loop of delete(): State.get(state_id).delete() fails at the first id
\* whose state is missing; the states deleted before it stay deleted
RECURSIVE DeleteStates(_, _)
DeleteStates(ids, st) ==
    IF ids = <<>> THEN [st |-> st, raised |-> FALSE]
    ELSE IF Head(ids) \notin DOMAIN st THEN [st |-> st, raised |-> TRUE]
    ELSE DeleteStates(Tail(ids), StoreDelete(st, Head(ids)))

\* ---- operations ----
InitOver(ids) ==
    /\ stStore = [k \in {} |-> ""]
    /\ expStore = [k \in {} |-> [state_ids |-> <<>>, editors |-> <<>>]]
    /\ \E e \in ids : obj = [id |-> e, state_ids |-> <<>>, editors |-> <<>>]
    /\ last = Call("init", "", "", FALSE)

\* Exploration(id=..., state_ids=..., editors=...)
Construct(e, sids, eds) ==
    /\ obj' = [id |-> e, state_ids |-> sids, editors |-> eds]
    /\ last' = Call("construct", "", "", FALSE)
    /\ UNCHANGED <<stStore, expStore>>

\* State(id=state_id, name=state_name).put()
StatePut(state_id, state_name) ==
    /\ stStore' = StorePut(stStore, state_id, state_name)
    /\ last' = Call("state_put", "", state_name, FALSE)
    /\ UNCHANGED <<expStore, obj>>

\* obj.put(): the hook runs first, the entity is written only if it passes
Put ==
    LET err == PrePutHook(obj, stStore) IN
    /\ expStore' = IF err = "" THEN StorePut(expStore, obj.id, Stored(obj))
                   ELSE expStore
    /\ last' = Call("put", err, "", FALSE)
    /\ UNCHANGED <<stStore, obj>>

\* add_state past the duplicate check: put the state, append, put
AddStateWith(state_name, new_id) ==
    LET st1 == StorePut(stStore, new_id, state_name)
        o1 == [obj EXCEPT !.state_ids = Append(@, new_id)]
        err == PrePutHook(o1, st1)
    IN /\ stStore' = st1
       /\ obj' = o1
       /\ expStore' = IF err = "" THEN StorePut(expStore, o1.id, Stored(o1))
                      ELSE expStore
       /\ last' = Call("add_state", err, state_name, FALSE)

\* obj.add_state(state_name, state_id); pool: the ids get_new_id draws from.
\* _has_state_named reads State.get(state_id).name for every id of the list:
\* on a missing state that fails (State.get raises, or returns None, which
\* has no name) before anything is written.
\* (the model stops growing state_ids at MaxStateRefs)
AddState(state_name, state_id, pool) ==
    /\ Len(obj.state_ids) < MaxStateRefs
    /\ IF ~AllStatesExist(obj, stStore)
       THEN /\ last' = Call("add_state", "StateNotFound", state_name, FALSE)
            /\ UNCHANGED <<stStore, expStore, obj>>
       ELSE IF has_state_named(obj, stStore, state_name)
       THEN /\ last' = Call("add_state", "DuplicateStateName", state_name, FALSE)
            /\ UNCHANGED <<stStore, expStore, obj>>
       ELSE IF state_id # "" THEN AddStateWith(state_name, state_id)
       ELSE \E new_id \in GetNewIds(stStore, pool) :
               AddStateWith(state_name, new_id)

AddEditorCommits(editor) ==
    LET o1 == [obj EXCEPT !.editors = Append(@, editor)] IN
    /\ Len(obj.editors) < MaxEditors
    /\ obj' = o1
    /\ expStore' = IF PrePutHook(o1, stStore) = ""
                   THEN StorePut(expStore, o1.id, Stored(o1)) ELSE expStore
    /\ last' = Call("add_editor", "", editor, FALSE)
    /\ UNCHANGED stStore

AddEditorPrepends(editor) ==
    /\ Len(obj.editors) < MaxEditors
    /\ obj' = [obj EXCEPT !.editors = <<editor>> \o @]
    /\ last' = Call("add_editor", "", editor, FALSE)
    /\ UNCHANGED <<stStore, expStore>>

\* obj.add_editor(editor) (the model stops growing editors at MaxEditors)
AddEditor(editor) ==
    /\ Len(obj.editors) < MaxEditors
    /\ obj' = [obj EXCEPT !.editors = Append(@, editor)]
    /\ last' = Call("add_editor", "", editor, FALSE)
    /\ UNCHANGED <<stStore, expStore>>

\* obj.delete()
Delete ==
    LET r == DeleteStates(obj.state_ids, stStore) IN
    /\ stStore' = r.st
    /\ expStore' = IF r.raised THEN expStore ELSE StoreDelete(expStore, obj.id)
    /\ last' = Call("delete", IF r.raised THEN "StateNotFound" ELSE "", "", FALSE)
    /\ UNCHANGED obj

\* obj.is_owned_by(user)
IsOwnedBy(user) ==
    LET r == is_owned_by(obj, user) IN
    /\ last' = Call("is_owned_by", IF r.raised THEN "IndexError" ELSE "",
                    user, r.truthy)
    /\ UNCHANGED <<stStore, expStore, obj>>

\* obj.is_editable_by(user)
IsEditableBy(user) ==
    LET r == is_editable_by(obj, user) IN
    /\ last' = Call("is_editable_by", "", user, r.truthy)
    /\ UNCHANGED <<stStore, expStore, obj>>

\* ---- Spec: the operations that read or write state references ----
Init == InitOver(ExpIds)

Next ==
    \/ \E e \in ExpIds, sids \in StateIdLists, eds \in EditorLists :
          Construct(e, sids, eds)
    \/ \E s \in StateIds, n \in Names : StatePut(s, n)
    \/ Put
    \/ \E n \in Names, s \in StateIds \cup {""} : AddState(n, s, StateIds)
    \/ Delete

Spec == Init /\ [][Next]_vars

\* ---- SpecEditors: every operation, over two users ----
InitE == InitOver(ExpIdsE)

NextE ==
    \/ \E e \in ExpIdsE, sids \in StateIdListsE, eds \in EditorListsE :
          Construct(e, sids, eds)
    \/ \E s \in StateIdsE, n \in NamesE : StatePut(s, n)
    \/ Put
    \/ \E n \in NamesE, s \in StateIdsE \cup {""} : AddState(n, s, StateIdsE)
    \/ \E u \in UsersE : AddEditor(u)
    \/ Delete
    \/ \E u \in UsersE \cup {""} : IsOwnedBy(u)
    \/ \E u \in UsersE \cup {""} : IsEditableBy(u)

SpecEditors == InitE /\ [][NextE]_vars

\* ---- vocabulary of the properties ----
StoredIds == DOMAIN expStore

RefsValid(x, st) == \A i \in 1..Len(x.state_ids) : x.state_ids[i] \in DOMAIN st

SomeRefMissing(x, st) ==
    \E i \in 1..Len(x.state_ids) : x.state_ids[i] \notin DOMAIN st

ContainsStateNamed(o, st, name) ==
    \E i \in 1..Len(o.state_ids) :
        o.state_ids[i] \in DOMAIN st /\ st[o.state_ids[i]] = name

\* the users is_owned_by accepts
Owners(o) == {u \in UsersE : is_owned_by(o, u).truthy}

DatastoreUnchanged == expStore' = expStore /\ stStore' = stStore

\* ---- C1 ----
NoStoredExplorationIsEmpty ==
    \A e \in StoredIds : expStore[e].state_ids # <<>>

PutOfEmptyIsRejected ==
    (last'.op = "put" /\ obj.state_ids = <<>>)
        => (last'.err = "ModelValidationError" /\ DatastoreUnchanged)

\* C1: a put of an exploration with an empty state_ids list raises
\* ModelValidationError and stores nothing, and every exploration in the
\* datastore has a non-empty state_ids list.
C1_NonEmptyStateIds ==
    []NoStoredExplorationIsEmpty /\ [][PutOfEmptyIsRejected]_vars

C1_Witness ==
    /\ last.op = "put" /\ last.err = "ModelValidationError"
    /\ obj.state_ids = <<>> /\ obj.editors # <<>>
    /\ StoredIds # {}

\* ---- C2 ----
PutChecksEveryReference ==
    last'.op = "put" =>
        /\ SomeRefMissing(obj, stStore)
              => (last'.err = "ModelValidationError" /\ DatastoreUnchanged)
        /\ last'.err = ""
              => (RefsValid(obj, stStore) /\ obj.id \in DOMAIN expStore'
                  /\ expStore'[obj.id] = Stored(obj))

\* C2: a put fails with ModelValidationError and leaves the datastore
\* unchanged whenever some id of state_ids refers to no stored state; a put
\* that succeeds had every id of state_ids referring to a stored state.
C2_PutRejectsInvalidReference == [][PutChecksEveryReference]_vars

C2_Witness ==
    /\ last.op = "put" /\ last.err = "ModelValidationError"
    /\ obj.editors # <<>> /\ Len(obj.state_ids) = 2
    /\ obj.state_ids[1] \in DOMAIN stStore
    /\ obj.state_ids[2] \notin DOMAIN stStore

\* ---- C3 ----
NonDemoStoredHasEditor ==
    \A e \in StoredIds : ~is_demo(e) => expStore[e].editors # <<>>

PutWithoutEditors ==
    (last'.op = "put" /\ obj.editors = <<>>) =>
        IF ~is_demo(obj.id)
        THEN last'.err = "ModelValidationError" /\ DatastoreUnchanged
        ELSE (obj.state_ids # <<>> /\ RefsValid(obj, stStore))
                => (last'.err = "" /\ obj.id \in DOMAIN expStore'
                    /\ expStore'[obj.id] = Stored(obj))

\* C3: a put of an exploration with no editors raises ModelValidationError
\* and stores nothing unless the exploration is a demo; a demo exploration
\* with no editors and valid, non-empty state_ids is accepted; every
\* non-demo exploration in the datastore has at least one editor.
C3_EditorsUnlessDemo ==
    []NonDemoStoredHasEditor /\ [][PutWithoutEditors]_vars

C3_Witness ==
    /\ last.op = "put" /\ last.err = ""
    /\ obj.id = <<"0", "1">> /\ is_demo(obj.id) /\ obj.editors = <<>>
    /\ expStore[obj.id] = Stored(obj)
    /\ \E e \in StoredIds : ~is_demo(e)

\* ---- C4 ----
AddStateAppendsAndCommits ==
    (last'.op = "add_state" /\ last'.err = "" /\ PrePutHook(obj, stStore) = "")
        => LET new_id == obj'.state_ids[Len(obj'.state_ids)] IN
           /\ obj'.state_ids = Append(obj.state_ids, new_id)
           /\ new_id \in DOMAIN stStore' /\ stStore'[new_id] = last'.arg
           /\ init_state(obj', stStore') = init_state(obj, stStore)
           /\ obj.id \in DOMAIN expStore'
           /\ expStore'[obj.id].state_ids = obj'.state_ids

\* C4: a successful add_state on a valid exploration stores a state with the
\* given name, appends its id as the last element of state_ids keeping the
\* earlier elements, leaves init_state unchanged, and commits, so that the
\* stored state_ids equals the in-memory state_ids.
C4_AddStateKeepsInitState == [][AddStateAppendsAndCommits]_vars

\* ---- C5 ----
DuplicateNameChangesNothing ==
    (last'.op = "add_state" /\ ContainsStateNamed(obj, stStore, last'.arg))
        => (last'.err # "" /\ DatastoreUnchanged /\ obj' = obj)

\* C5: add_state raises when the exploration already contains a state with
\* the given name, and then no state is created or overwritten, and neither
\* the in-memory state_ids nor the stored exploration changes.
C5_DuplicateNameRaises == [][DuplicateNameChangesNothing]_vars

C5_Witness ==
    /\ last.op = "add_state" /\ last.err = "DuplicateStateName"
    /\ ContainsStateNamed(obj, stStore, last.arg)
    /\ obj.id \in StoredIds

\* ---- C6 ----
AddEditorOnlyInMemory ==
    last'.op = "add_editor" =>
        /\ obj' = [obj EXCEPT !.editors = Append(obj.editors, last'.arg)]
        /\ DatastoreUnchanged

StoredEditorsChangeOnlyByPut ==
    (\E e \in DOMAIN expStore' :
        e \notin StoredIds \/ expStore'[e].editors # expStore[e].editors)
        => (last'.op \in {"put", "add_state"} /\ last'.err = "")

\* C6: add_editor appends the editor to the in-memory editors list and
\* changes neither the stored exploration nor any stored state; stored
\* editors change only by a successful put.
C6_AddEditorDoesNotCommit ==
    [][AddEditorOnlyInMemory]_vars /\ [][StoredEditorsChangeOnlyByPut]_vars

C6_Witness ==
    /\ last.op = "add_editor"
    /\ obj.id \in StoredIds
    /\ Len(obj.editors) = Len(expStore[obj.id].editors) + 1
    /\ obj.editors[Len(obj.editors)] = last.arg

\* ---- C7 ----
DeleteRemovesExplorationAndStates ==
    (last'.op = "delete" /\ obj.id \in StoredIds /\ expStore[obj.id] = Stored(obj))
        => /\ obj.id \notin DOMAIN expStore'
           /\ \A i \in 1..Len(obj.state_ids) :
                 obj.state_ids[i] \notin DOMAIN stStore'

\* C7: after delete() on a stored exploration, the exploration is no longer
\* in the datastore and none of the ids of its state_ids refers to a stored
\* state.
C7_DeleteDeletes == [][DeleteRemovesExplorationAndStates]_vars

\* ---- C8 ----
OwnershipQueries ==
    /\ last.op = "is_owned_by" =>
          (last.truthy <=> (last.arg # "" /\ obj.editors # <<>>
                            /\ last.arg = obj.editors[1]))
    /\ \A u \in UsersE \cup {""} :
          is_owned_by(obj, u).truthy => is_editable_by(obj, u).truthy

OwnerStaysFor(o) ==
    (last'.op \in {"add_editor", "add_state"} /\ ~is_demo(obj.id) /\ o)
        => Owners(obj') = Owners(obj)

\* C8 as stated: for every non-demo exploration, is_owned_by accepts exactly
\* editors[0], no add_editor or add_state call changes whom it accepts, and
\* whoever it accepts is_editable_by accepts too.
C8_OwnerStays == []OwnershipQueries /\ [][OwnerStaysFor(TRUE)]_vars

\* C8 amended: the same for a non-demo exploration whose editors list is
\* not empty.
C8_OwnerStaysOnceSet ==
    []OwnershipQueries /\ [][OwnerStaysFor(obj.editors # <<>>)]_vars

C8_Witness ==
    /\ last.op = "add_editor" /\ ~is_demo(obj.id)
    /\ Len(obj.editors) = 2 /\ obj.editors[1] # obj.editors[2]
    /\ Owners(obj) = {obj.editors[1]}

\* ---- C9 ----
\* C9: every id in the state_ids of every exploration in the datastore
\* refers to a state in the datastore.
C9_StoredReferencesValid ==
    \A e \in StoredIds : RefsValid(expStore[e], stStore)
====
